---- MODULE Spec2Model ----
(***************************************************************************)
(* Recovery-map metadata helpers of libs/jpegrecoverymap:                  *)
(*   updateExif / updateExifOffsets / readValue / findFormatLengthInBytes  *)
(*   (EXIF patching) and generateXmp / XMPXmlHandler / getMetadataFromXMP  *)
(*   (XMP packet).                                                         *)
(* RuntimeSensor of services/sensorservice: activate / batch / setDelay.   *)
(* Bytes are naturals 0..255; buffers are sequences, byte i of a buffer b  *)
(* is b[i + 1].                                                            *)
(***************************************************************************)
EXTENDS Integers, Sequences, FiniteSets, TLC

VARIABLES
    exif,            \* source jr_exif_ptr: [isNull, data]; length = Len(data)
    dest,            \* bytes of the destination allocation (dest->data)
    pos,             \* write cursor of updateExif ("int pos")
    pc,              \* "start" | "walk" | "done" | "crashed" | "overflow"
    status,          \* "none" | "NO_ERROR" | "ERROR_JPEGR_METADATA_ERROR"
    use_big_endian,  \* local of updateExif
    stack,           \* activations of updateExifOffsets(exif,pos,num_entry,..)
    writeOob,        \* history: a Write stored past the destination allocation
    walkOob,         \* history: the IFD walk touched a byte outside the allocation
    badFormat,       \* history: findFormatLengthInBytes hit its default branch
    rewritten,       \* history: positions of the 4-byte fields the walk rewrote
    metadata,                \* jpegr_metadata given to generateXmp
    secondary_image_length,  \* its other argument
    writer,          \* the XmlWriter of generateXmp
    wpos,            \* number of the next call generateXmp makes on the writer
    variant,         \* what the caller does to the document before parsing it
    xmp_data,        \* the APP1 payload given to getMetadataFromXMP
    xpc,             \* "idle" | "start" | "packet" | "parse" | "done"
    input,           \* XmlReader: the text not yet consumed
    rmode,           \* XmlReader: "content" | "tag" | "value"
    open,            \* XmlReader: names of the open elements
    rerror,          \* XmlReader: HasErrors()
    handler,         \* the XMPXmlHandler object
    result,          \* return value and *metadata of getMetadataFromXMP
    mEnabled,                \* RuntimeSensor::mEnabled
    mSamplingPeriodNs,       \* RuntimeSensor::mSamplingPeriodNs
    mBatchReportLatencyNs,   \* RuntimeSensor::mBatchReportLatencyNs
    callbacks,       \* the onConfigurationChanged calls made on mCallback, in order
    returned         \* the last call on the sensor and the status_t it returned

exifVars == <<exif, dest, pos, pc, status, use_big_endian, stack,
              writeOob, walkOob, badFormat, rewritten>>

xmpVars == <<metadata, secondary_image_length, writer, wpos, variant, xmp_data, xpc, input,
             rmode, open, rerror, handler, result>>

vars == <<exif, dest, pos, pc, status, use_big_endian, stack,
          writeOob, walkOob, badFormat, rewritten,
          metadata, secondary_image_length, writer, wpos, variant, xmp_data, xpc, input,
          rmode, open, rerror, handler, result,
          mEnabled, mSamplingPeriodNs, mBatchReportLatencyNs, callbacks, returned>>

sensorVars == <<mEnabled, mSamplingPeriodNs, mBatchReportLatencyNs, callbacks, returned>>

(***************************************************************************)
(* Program constants                                                       *)
(***************************************************************************)
PSEUDO_EXIF_PACKAGE_LENGTH == 28
EXIF_J_R_ENTRY_LENGTH == 12
ExifSubIfdTag == 34665          \* 0x8769
Mark4949 == 18761               \* 0x4949
Mark4d4d == 19789               \* 0x4d4d

(***************************************************************************)
(* Bounds of the model                                                     *)
(***************************************************************************)
MaxIfd0Entries == 2     \* entries of IFD0 in the generated payloads
MaxSubEntries == 1      \* entries of the Exif SubIFD in the generated payloads
StackLimit == 4         \* activations of updateExifOffsets the stack can hold

Unwritten == 0 - 1      \* marks a destination byte no Write has stored yet
OobBytes == {0, 255}    \* values a read outside the allocation may yield

Pow2_8 == 2^8
Pow2_16 == 2^16
Pow2_24 == 2^24
Pow2_15 == 2^15

\* the int made of four bytes, most significant first (two's complement)
Int32(b3, b2, b1, b0) ==
    LET hi == b3 * Pow2_8 + b2
    IN (IF hi >= Pow2_15 THEN hi - Pow2_16 ELSE hi) * Pow2_16 + b1 * Pow2_8 + b0

(***************************************************************************)
(* Write(jr_exif_ptr, source, length, position): memcpy without a capacity *)
(* check.  Bytes that fall past the allocation do not land in dest.        *)
(***************************************************************************)
Write(destination, source, position) ==
    [data |-> [k \in 1..Len(destination) |->
                  IF k > position /\ k <= position + Len(source)
                  THEN source[k - position] ELSE destination[k]],
     pos  |-> position + Len(source),
     oob  |-> position + Len(source) > Len(destination)]

(***************************************************************************)
(* Write(jr_compressed_ptr, ...): the checked overload.                    *)
(***************************************************************************)
WriteCompressed(destination, maxLength, source, position) ==
    IF position + Len(source) > maxLength
    THEN [data |-> destination, pos |-> position,
          status |-> "ERROR_JPEGR_BUFFER_TOO_SMALL"]
    ELSE [data |-> [k \in 1..Len(destination) |->
                      IF k > position /\ k <= position + Len(source)
                      THEN source[k - position] ELSE destination[k]],
          pos |-> position + Len(source),
          status |-> "NO_ERROR"]

(***************************************************************************)
(* readValue: data[pos] read through the allocation; f stands for a byte   *)
(* fetched from outside of it.                                             *)
(***************************************************************************)
InBuf(data, i) == i >= 0 /\ i < Len(data)

ByteAt(data, i, f) == IF InBuf(data, i) THEN data[i + 1] ELSE f

readValue(data, p, length, big, f) ==
    IF length = 2
    THEN IF big
         THEN ByteAt(data, p, f) * Pow2_8 + ByteAt(data, p + 1, f)
         ELSE ByteAt(data, p + 1, f) * Pow2_8 + ByteAt(data, p, f)
    ELSE IF length = 4
    THEN IF big
         THEN Int32(ByteAt(data, p, f), ByteAt(data, p + 1, f),
                    ByteAt(data, p + 2, f), ByteAt(data, p + 3, f))
         ELSE Int32(ByteAt(data, p + 3, f), ByteAt(data, p + 2, f),
                    ByteAt(data, p + 1, f), ByteAt(data, p, f))
    ELSE 0 - 1

findFormatLengthInBytes(data_format) ==
    IF data_format \in {1, 2, 6, 7} THEN 1
    ELSE IF data_format \in {3, 8} THEN 2
    ELSE IF data_format \in {4, 9, 11} THEN 4
    ELSE IF data_format \in {5, 10, 12} THEN 8
    ELSE 0 - 1

(***************************************************************************)
(* The four byte stores at the end of the loop body of updateExifOffsets.  *)
(***************************************************************************)
OffsetBytes(offset, big) ==
    LET b0 == offset % Pow2_8
        b1 == (offset \div Pow2_8) % Pow2_8
        b2 == (offset \div Pow2_16) % Pow2_8
        b3 == (offset \div Pow2_24) % Pow2_8
    IN IF big THEN <<b3, b2, b1, b0>> ELSE <<b0, b1, b2, b3>>

StoreOffset(data, p, offset, big) ==
    LET bytes == OffsetBytes(offset, big)
    IN [k \in 1..Len(data) |->
          IF k - 1 >= p + 8 /\ k - 1 <= p + 11 THEN bytes[k - 1 - (p + 8) + 1]
          ELSE data[k]]

RangeInBuf(data, p, n) == p >= 0 /\ p + n <= Len(data)

(***************************************************************************)
(* Payload generator (inputs of the model)                                 *)
(***************************************************************************)
U16(v, big) == IF big THEN <<v \div Pow2_8, v % Pow2_8>>
               ELSE <<v % Pow2_8, v \div Pow2_8>>

U32(v, big) == OffsetBytes(v, big)

EntryBytes(e, big) == U16(e.tag, big) \o U16(e.fmt, big) \o U32(e.cnt, big) \o U32(e.val, big)

Kinds == {"inline", "offset", "sub", "badfmt", "badneg"}

\* subOff / dataOff are TIFF-relative offsets, as stored in a value field
EntryOf(kind, subOff, dataOff) ==
    IF kind = "inline" THEN [tag |-> 274, fmt |-> 3, cnt |-> 1, val |-> 1]
    ELSE IF kind = "offset" THEN [tag |-> 271, fmt |-> 2, cnt |-> 6, val |-> dataOff]
    ELSE IF kind = "sub" THEN [tag |-> ExifSubIfdTag, fmt |-> 4, cnt |-> 1, val |-> subOff]
    ELSE IF kind = "badfmt" THEN [tag |-> 256, fmt |-> 13, cnt |-> 1, val |-> 7]
    ELSE [tag |-> 257, fmt |-> 0, cnt |-> 0 - 8, val |-> dataOff]

RECURSIVE IfdBytes(_, _, _, _)
IfdBytes(kinds, subOff, dataOff, big) ==
    IF kinds = <<>> THEN <<>>
    ELSE EntryBytes(EntryOf(Head(kinds), subOff, dataOff), big)
         \o IfdBytes(Tail(kinds), subOff, dataOff, big)

SeqsUpTo(S, n) == UNION {[1..k -> S] : k \in 0..n}

ExifSignature == <<69, 120, 105, 102, 0, 0>>
DataArea == <<65, 66, 67, 68, 69, 70, 71, 72>>

\* mark: the two bytes at 6..7; count: the IFD0 entry count that is stored
MkExif(mark, big, count, k0, hasSub, k1) ==
    LET subOff  == 14 + 12 * Len(k0)
        dataOff == subOff + 6 + 12 * Len(k1)
    IN ExifSignature \o mark \o U16(42, big) \o U32(8, big)
       \o U16(count, big) \o IfdBytes(k0, subOff, dataOff, big) \o <<0, 0, 0, 0>>
       \o (IF hasSub
           THEN U16(Len(k1), big) \o IfdBytes(k1, subOff, dataOff, big)
                \o <<0, 0, 0, 0>> \o DataArea
           ELSE <<>>)

MarkOf(big) == IF big THEN <<77, 77>> ELSE <<73, 73>>

WellFormedPayloads ==
    {MkExif(MarkOf(big), big, Len(k0), k0, TRUE, k1) :
        big \in BOOLEAN, k0 \in SeqsUpTo(Kinds, MaxIfd0Entries),
        k1 \in SeqsUpTo(Kinds, MaxSubEntries)}
    \cup
    {MkExif(MarkOf(big), big, Len(k0), k0, FALSE, <<>>) :
        big \in BOOLEAN, k0 \in SeqsUpTo(Kinds, MaxIfd0Entries)}

BadMarks == {<<73, 77>>, <<77, 73>>, <<0, 0>>, <<73, 0>>}

BadMarkPayloads ==
    {MkExif(m, big, 1, <<"inline">>, FALSE, <<>>) : m \in BadMarks, big \in BOOLEAN}

FullCountPayloads ==
    {MkExif(MarkOf(big), big, 65535, <<"inline">>, FALSE, <<>>) : big \in BOOLEAN}

Payloads == WellFormedPayloads \cup BadMarkPayloads \cup FullCountPayloads

NullExif == [isNull |-> TRUE, data |-> <<>>]

\* bytes updateExif stores for a source
Needed(e) == IF e.isNull THEN PSEUDO_EXIF_PACKAGE_LENGTH
             ELSE Len(e.data) + EXIF_J_R_ENTRY_LENGTH

(***************************************************************************)
(* updateExif                                                              *)
(***************************************************************************)
\* (mutant) the pseudo package with a big-endian TIFF header
PseudoExifBigEndian == <<69, 120, 105, 102, 0, 0,
                         77, 77, 0, 42,
                         0, 0, 0, 8,
                         0, 1,
                         74, 82,
                         0, 7,
                         0, 0, 0, 1,
                         0, 0, 0, 0>>

PseudoExif == <<69, 120, 105, 102, 0, 0,
                73, 73, 42, 0,
                8, 0, 0, 0,
                1, 0,
                74, 82,
                7, 0,
                1, 0, 0, 0,
                0, 0, 0, 0>>

JrEntryBig == <<74, 82, 0, 7, 0, 0, 0, 1, 0, 0, 0, 0>>
\* (mutant) the tag of the little-endian entry stored low byte first
JrEntryLittleTagLowFirst == <<82, 74, 7, 0, 1, 0, 0, 0, 0, 0, 0, 0>>

JrEntryLittle == <<74, 82, 7, 0, 1, 0, 0, 0, 0, 0, 0, 0>>

\* (mutant) the byte-order test looks at byte 6 only
Mark16LowByte(data) == data[7] + Pow2_8 * data[7]

\* reinterpret_cast<uint16_t*>(exif->data)[3] on the little-endian target
Mark16(data) == data[7] + Pow2_8 * data[8]

\* sizes of the caller's allocation: exact, one short, and (no source) one spare
Capacities(e) == {Needed(e) - 1, Needed(e)} \cup (IF e.isNull THEN {Needed(e) + 1} ELSE {})

InitExif ==
    /\ exif \in {NullExif} \cup {[isNull |-> FALSE, data |-> d] : d \in Payloads}
    /\ \E cap \in Capacities(exif) : dest = [k \in 1..cap |-> Unwritten]
    /\ pos = 0
    /\ pc = "start"
    /\ status = "none"
    /\ use_big_endian = FALSE
    /\ stack = <<>>
    /\ writeOob = FALSE
    /\ walkOob = FALSE
    /\ badFormat = FALSE
    /\ rewritten = {}

\* lines 352-365
UpdateExifNull ==
    /\ pc = "start"
    /\ exif.isNull
    /\ LET w == Write(dest, PseudoExif, 0)
       IN /\ dest' = w.data
          /\ pos' = w.pos
          /\ writeOob' = w.oob
    /\ status' = "NO_ERROR"
    /\ pc' = "done"
    /\ UNCHANGED <<sensorVars, xmpVars, exif, use_big_endian, stack, walkOob, badFormat, rewritten>>

\* lines 371-380, the else branch
UpdateExifBadMark ==
    /\ pc = "start"
    /\ ~exif.isNull
    /\ Mark16(exif.data) # Mark4949
    /\ Mark16(exif.data) # Mark4d4d
    /\ status' = "ERROR_JPEGR_METADATA_ERROR"
    /\ pc' = "done"
    /\ UNCHANGED <<sensorVars, xmpVars, exif, dest, pos, use_big_endian, stack, writeOob, walkOob,
                   badFormat, rewritten>>

\* (mutant) the increment is lost
NumEntryNoIncrement(data, big) ==
    LET lo == IF big THEN data[16] ELSE data[15]
        hi == IF big THEN data[15] ELSE data[16]
    IN hi * Pow2_8 + lo

\* num_entry after "num_entry += 1" (an int, not truncated)
NumEntryPlusOne(data, big) ==
    LET lo == IF big THEN data[16] ELSE data[15]
        hi == IF big THEN data[15] ELSE data[16]
    IN (hi * Pow2_8 + lo) + 1

\* lines 367-414: detect the byte order, emit header, count, JR entry and the
\* rest of the payload, then enter updateExifOffsets(dest, 28, num_entry - 1)
UpdateExifCopy ==
    /\ pc = "start"
    /\ ~exif.isNull
    /\ Mark16(exif.data) \in {Mark4949, Mark4d4d}
    /\ LET big            == Mark16(exif.data) = Mark4d4d
           num_entry      == NumEntryPlusOne(exif.data, big)
           num_entry_low  == num_entry % Pow2_8
           num_entry_high == (num_entry \div Pow2_8) % Pow2_8
           w1 == Write(dest, SubSeq(exif.data, 1, 14), 0)
           w2 == Write(w1.data, IF big THEN <<num_entry_high>> ELSE <<num_entry_low>>, w1.pos)
           w3 == Write(w2.data, IF big THEN <<num_entry_low>> ELSE <<num_entry_high>>, w2.pos)
           w4 == Write(w3.data, IF big THEN JrEntryBig ELSE JrEntryLittle, w3.pos)
           w5 == Write(w4.data, SubSeq(exif.data, 17, Len(exif.data)), w4.pos)
       IN /\ use_big_endian' = big
          /\ dest' = w5.data
          /\ pos' = w5.pos
          /\ writeOob' = (w1.oob \/ w2.oob \/ w3.oob \/ w4.oob \/ w5.oob)
          /\ stack' = <<[pos |-> 28, i |-> 0, num_entry |-> num_entry - 1]>>
    /\ pc' = "walk"
    /\ UNCHANGED <<sensorVars, xmpVars, exif, status, walkOob, badFormat, rewritten>>

(***************************************************************************)
(* updateExifOffsets                                                       *)
(***************************************************************************)
Top == stack[Len(stack)]

InLoop == pc = "walk" /\ Top.i < Top.num_entry

Advance(fr) == [fr EXCEPT !.pos = @ + EXIF_J_R_ENTRY_LENGTH, !.i = @ + 1]

\* An activation whose pos has passed the end of the allocation reads only
\* outside bytes from there on (pos only grows).  With the values of OobBytes
\* such an entry is neither a 0x8769 entry nor an offset, so its remaining
\* iterations change nothing but pos and i; they are taken in one step.
Outside(fr) == fr.pos >= Len(dest)

AdvanceEntry(fr) ==
    IF Outside(fr)
    THEN [fr EXCEPT !.pos = @ + EXIF_J_R_ENTRY_LENGTH * (fr.num_entry - fr.i),
                    !.i = fr.num_entry]
    ELSE Advance(fr)

ReplaceTop(fr) == [stack EXCEPT ![Len(stack)] = fr]

\* loop body for an entry whose tag is not 0x8769 (lines 430, 439-468)
WalkEntry ==
    /\ InLoop
    /\ \E f \in OobBytes :
         LET p   == Top.pos
             tag == readValue(dest, p, 2, use_big_endian, f)
             data_format == readValue(dest, p + 2, 2, use_big_endian, f)
             num_of_components == readValue(dest, p + 4, 4, use_big_endian, f)
             data_length ==
                 findFormatLengthInBytes(data_format) * num_of_components
             need_to_update_offset == data_length > 4
             offset == readValue(dest, p + 8, 4, use_big_endian, f)
                       + EXIF_J_R_ENTRY_LENGTH
         IN /\ tag # ExifSubIfdTag
            /\ badFormat' = (badFormat \/ (RangeInBuf(dest, p, 8)
                                            /\ findFormatLengthInBytes(data_format) = 0 - 1))
            /\ walkOob' = (walkOob
                           \/ ~RangeInBuf(dest, p, IF need_to_update_offset THEN 12 ELSE 8))
            /\ dest' = IF need_to_update_offset
                       THEN StoreOffset(dest, p, offset, use_big_endian) ELSE dest
            /\ rewritten' = IF need_to_update_offset
                            THEN rewritten \cup {p + 8} ELSE rewritten
    /\ stack' = ReplaceTop(AdvanceEntry(Top))
    /\ UNCHANGED <<sensorVars, xmpVars, exif, pos, pc, status, use_big_endian, writeOob>>

\* tag 0x8769: lines 432-438, then updateExifOffsets(exif, pos, big) lines 423-426
WalkDescend ==
    /\ InLoop
    /\ \E f \in OobBytes :
         LET p   == Top.pos
             tag == readValue(dest, p, 2, use_big_endian, f)
             sub_ifd_offset == readValue(dest, p + 8, 4, use_big_endian, f)
                               + 6 + EXIF_J_R_ENTRY_LENGTH
             num_entry == readValue(dest, sub_ifd_offset, 2, use_big_endian, f)
         IN /\ tag = ExifSubIfdTag
            /\ walkOob' = (walkOob \/ ~RangeInBuf(dest, p, 12)
                           \/ ~RangeInBuf(dest, sub_ifd_offset, 2))
            /\ IF Len(stack) < StackLimit
               THEN /\ stack' = Append(stack, [pos |-> sub_ifd_offset + 2, i |-> 0,
                                               num_entry |-> num_entry])
                    /\ pc' = pc
               ELSE /\ stack' = stack
                    /\ pc' = "overflow"
    /\ UNCHANGED <<sensorVars, xmpVars, exif, dest, pos, status, use_big_endian, writeOob, badFormat,
                   rewritten>>

\* the recursive call returns: lines 454-468 of the caller, then its pos += 12, i++
WalkReturn ==
    /\ pc = "walk"
    /\ Top.i >= Top.num_entry
    /\ Len(stack) > 1
    /\ \E f \in OobBytes :
         LET caller == stack[Len(stack) - 1]
             p      == caller.pos
             offset == readValue(dest, p + 8, 4, use_big_endian, f)
                       + EXIF_J_R_ENTRY_LENGTH
         IN /\ dest' = StoreOffset(dest, p, offset, use_big_endian)
            /\ rewritten' = rewritten \cup {p + 8}
            /\ walkOob' = (walkOob \/ ~RangeInBuf(dest, p, 12))
            /\ stack' = [SubSeq(stack, 1, Len(stack) - 1)
                            EXCEPT ![Len(stack) - 1] = Advance(caller)]
    /\ UNCHANGED <<sensorVars, xmpVars, exif, pos, pc, status, use_big_endian, writeOob, badFormat>>

\* the outermost loop ends: line 416
UpdateExifReturn ==
    /\ pc = "walk"
    /\ Top.i >= Top.num_entry
    /\ Len(stack) = 1
    /\ stack' = <<>>
    /\ status' = "NO_ERROR"
    /\ pc' = "done"
    /\ UNCHANGED <<sensorVars, xmpVars, exif, dest, pos, use_big_endian, writeOob, walkOob, badFormat,
                   rewritten>>

\* an access outside the allocation may also end the process
AccessFaults ==
    IF pc = "start"
    THEN Needed(exif) > Len(dest)
         /\ (IF exif.isNull THEN TRUE ELSE Mark16(exif.data) \in {Mark4949, Mark4d4d})
    ELSE InLoop /\ ~RangeInBuf(dest, Top.pos, 12)

Fault ==
    /\ pc \in {"start", "walk"}
    /\ AccessFaults
    /\ pc' = "crashed"
    /\ stack' = <<>>
    /\ writeOob' = (writeOob \/ pc = "start")
    /\ walkOob' = (walkOob \/ pc = "walk")
    /\ UNCHANGED <<sensorVars, xmpVars, exif, dest, pos, status, use_big_endian, badFormat, rewritten>>
(***************************************************************************)
(* XMP packet.  A document is a sequence of lexemes [k, v]: k is the kind  *)
(* of lexeme and v its text, a sequence of symbols (a symbol is one        *)
(* character of a number, or a whole word of any other text).              *)
(***************************************************************************)
Lt == [k |-> "lt", v |-> <<"<">>]
Gt == [k |-> "gt", v |-> <<">">>]
SlashGt == [k |-> "slashgt", v |-> <<"/", ">">>]
LtSlash == [k |-> "ltslash", v |-> <<"<", "/">>]
Eq == [k |-> "eq", v |-> <<"=">>]
NameLx(n) == [k |-> "name", v |-> n]
ValueLx(s) == [k |-> "value", v |-> s]
TextLx(s) == [k |-> "text", v |-> s]
ByteLx(b) == [k |-> "byte", v |-> <<b>>]

\* Name(prefix, suffix): "prefix:suffix"
Name(prefix, suffix) == <<prefix, ":", suffix>>

Digits == <<"0", "1", "2", "3", "4", "5", "6", "7", "8", "9">>
IsDigit(c) == \E d \in 1..10 : Digits[d] = c
DigitVal(c) == (CHOOSE d \in 1..10 : Digits[d] = c) - 1

RECURSIVE Pow10(_)
Pow10(k) == IF k = 0 THEN 1 ELSE 10 * Pow10(k - 1)

RECURSIVE NumDigits(_)
NumDigits(n) == IF n < 10 THEN 1 ELSE 1 + NumDigits(n \div 10)

\* operator<< of an int
RECURSIVE FormatNat(_)
FormatNat(n) == IF n < 10 THEN <<Digits[n + 1]>>
                ELSE FormatNat(n \div 10) \o <<Digits[(n % 10) + 1]>>

FormatInt(n) == IF n < 0 THEN <<"-">> \o FormatNat(0 - n) ELSE FormatNat(n)

\* A real x is held as the integer x * 10^FracDigits.
FracDigits == 7
FloatScale == Pow10(FracDigits)
StreamPrecision == 6     \* default precision of a stream: significant digits

\* the fraction f (0 < f < FloatScale) without its trailing zeros
RECURSIVE FractionText(_, _)
FractionText(f, width) ==
    IF f = 0 THEN <<>>
    ELSE <<Digits[(f \div Pow10(width - 1)) + 1]>>
         \o FractionText(f % Pow10(width - 1), width - 1)

\* operator<< of a float (for 10^-4 <= x < 10^6, where it uses fixed notation)
FormatFloat(x) ==
    LET d == NumDigits(x)
        r == IF d > StreamPrecision
             THEN ((x + 5 * Pow10(d - StreamPrecision - 1)) \div Pow10(d - StreamPrecision))
                  * Pow10(d - StreamPrecision)
             ELSE x
    IN FormatNat(r \div FloatScale)
       \o (IF r % FloatScale = 0 THEN <<>>
           ELSE <<".">> \o FractionText(r % FloatScale, FracDigits))

\* longest prefix of digits of s, as [val, len]
RECURSIVE ScanDigits(_, _, _)
ScanDigits(s, val, len) ==
    IF s # <<>> /\ IsDigit(Head(s))
    THEN ScanDigits(Tail(s), 10 * val + DigitVal(Head(s)), len + 1)
    ELSE [val |-> val, len |-> len]

\* the first FracDigits digits of a fraction, scaled
RECURSIVE ScanFraction(_, _)
ScanFraction(s, width) ==
    IF s # <<>> /\ IsDigit(Head(s)) /\ width > 0
    THEN DigitVal(Head(s)) * Pow10(width - 1) + ScanFraction(Tail(s), width - 1)
    ELSE 0

Drop(s, n) == SubSeq(s, n + 1, Len(s))

\* "ss >> val" for an int: optional sign, then digits; fails without a digit
ParseInt(s) ==
    LET neg  == s # <<>> /\ Head(s) = "-"
        body == IF s # <<>> /\ Head(s) \in {"-", "+"} THEN Tail(s) ELSE s
        d    == ScanDigits(body, 0, 0)
    IN [ok |-> d.len > 0, val |-> IF neg THEN 0 - d.val ELSE d.val]

\* "ss >> val" for a float: digits, optionally "." and digits
ParseFloat(s) ==
    LET ip   == ScanDigits(s, 0, 0)
        rest == Drop(s, ip.len)
        dot  == rest # <<>> /\ Head(rest) = "."
        fd   == IF dot THEN ScanDigits(Tail(rest), 0, 0) ELSE [val |-> 0, len |-> 0]
    IN [ok  |-> ip.len + fd.len > 0,
        val |-> ip.val * FloatScale
                + (IF dot THEN ScanFraction(Tail(rest), FracDigits) ELSE 0)]

(***************************************************************************)
(* XmlWriter: output so far, the open elements, and whether the start tag  *)
(* of the innermost one is still open.                                     *)
(***************************************************************************)
NewWriter == [out |-> <<>>, open |-> <<>>, inTag |-> FALSE, depth |-> 0]

CloseTag(w) == IF w.inTag THEN w.out \o <<Gt>> ELSE w.out

StartWritingElement(w, name) ==
    [out |-> CloseTag(w) \o <<Lt, NameLx(name)>>, open |-> Append(w.open, name),
     inTag |-> TRUE, depth |-> w.depth]

WriteAttributeNameAndValue(w, name, value) ==
    [w EXCEPT !.out = @ \o <<NameLx(name), Eq, ValueLx(value)>>]

WriteXmlns(w, prefix, uri) == WriteAttributeNameAndValue(w, <<"xmlns", ":", prefix>>, <<uri>>)

FinishWritingElement(w) ==
    [out |-> IF w.inTag THEN w.out \o <<SlashGt>>
             ELSE w.out \o <<LtSlash, NameLx(w.open[Len(w.open)]), Gt>>,
     open |-> SubSeq(w.open, 1, Len(w.open) - 1),
     inTag |-> FALSE, depth |-> w.depth]

WriteElementAndContent(w, name, content) ==
    LET s == StartWritingElement(w, name)
    IN FinishWritingElement([s EXCEPT !.out = @ \o <<Gt, TextLx(content)>>,
                                      !.inTag = FALSE])

\* returns (in depth) the number of elements open before the first new one
RECURSIVE StartAll(_, _)
StartAll(w, names) ==
    IF names = <<>> THEN w
    ELSE StartAll(StartWritingElement(w, Head(names)), Tail(names))

StartWritingElements(w, names) == [StartAll(w, names) EXCEPT !.depth = Len(w.open)]

RECURSIVE FinishWritingElementsToDepth(_, _)
FinishWritingElementsToDepth(w, depth) ==
    IF Len(w.open) > depth
    THEN FinishWritingElementsToDepth(FinishWritingElement(w), depth)
    ELSE w

FinishWriting(w) == FinishWritingElementsToDepth(w, 0)

\* one call of the writer, as a record
Call(op, a, b) == [op |-> op, a |-> a, b |-> b]

Apply(w, c) ==
    IF c.op = "StartWritingElement" THEN StartWritingElement(w, c.a)
    ELSE IF c.op = "WriteXmlns" THEN WriteXmlns(w, c.a[1], c.b[1])
    ELSE IF c.op = "WriteAttributeNameAndValue" THEN WriteAttributeNameAndValue(w, c.a, c.b)
    ELSE IF c.op = "WriteElementAndContent" THEN WriteElementAndContent(w, c.a, c.b)
    ELSE IF c.op = "StartWritingElements" THEN StartWritingElements(w, <<c.a, c.b>>)
    ELSE IF c.op = "FinishWritingElement" THEN FinishWritingElement(w)
    ELSE IF c.op = "FinishWritingElementsToDepth" THEN FinishWritingElementsToDepth(w, w.depth)
    ELSE FinishWriting(w)


(***************************************************************************)
(* GContainer / RecoveryMap names (lines 172-222)                          *)
(***************************************************************************)
kContainerPrefix == "GContainer"
kRecoveryMapPrefix == "RecoveryMap"
kConDirectory == Name(kContainerPrefix, "Directory")
kConItem == Name(kContainerPrefix, "Item")
kConItemLength == Name(kContainerPrefix, "ItemLength")
kConItemMime == Name(kContainerPrefix, "ItemMime")
kConItemSemantic == Name(kContainerPrefix, "ItemSemantic")
kConVersion == Name(kContainerPrefix, "Version")
kGContainerVersion == 1
kMapRangeScalingFactor == Name(kRecoveryMapPrefix, "RangeScalingFactor")
kMapTransferFunction == Name(kRecoveryMapPrefix, "TransferFunction")
kMapVersion == Name(kRecoveryMapPrefix, "Version")
kMapHdr10Metadata == Name(kRecoveryMapPrefix, "HDR10Metadata")
kMapHdr10MaxFall == Name(kRecoveryMapPrefix, "HDR10MaxFALL")
kMapHdr10MaxCll == Name(kRecoveryMapPrefix, "HDR10MaxCLL")
kMapSt2086Metadata == Name(kRecoveryMapPrefix, "ST2086Metadata")
kMapSt2086MaxLum == Name(kRecoveryMapPrefix, "ST2086MaxLuminance")
kMapSt2086MinLum == Name(kRecoveryMapPrefix, "ST2086MinLuminance")
kMapSt2086Primary == Name(kRecoveryMapPrefix, "ST2086Primary")
kMapSt2086Coordinate == Name(kRecoveryMapPrefix, "ST2086Coordinate")
kMapSt2086CoordinateX == Name(kRecoveryMapPrefix, "ST2086CoordinateX")
kMapSt2086CoordinateY == Name(kRecoveryMapPrefix, "ST2086CoordinateY")
gContainerItemName == kConItem
rangeScalingFactorAttrName == kMapRangeScalingFactor
transferFunctionAttrName == kMapTransferFunction

JPEGR_TF_PQ == 3

\* the four calls that write one chromaticity coordinate (lines 302-308)
CoordinateCalls(primary, xy) ==
    <<Call("StartWritingElement", kMapSt2086Coordinate, <<>>),
      Call("WriteAttributeNameAndValue", kMapSt2086Primary, FormatInt(primary)),
      Call("WriteAttributeNameAndValue", kMapSt2086CoordinateX, FormatFloat(xy.x)),
      Call("WriteAttributeNameAndValue", kMapSt2086CoordinateY, FormatFloat(xy.y)),
      Call("FinishWritingElement", <<>>, <<>>)>>

\* the calls generateXmp makes, in order (lines 275-342)
generateXmpCalls(length, md) ==
    <<Call("StartWritingElement", <<"x", ":", "xmpmeta">>, <<>>),
      Call("WriteXmlns", <<"x">>, <<"adobe:ns:meta/">>),
      Call("WriteAttributeNameAndValue", <<"x", ":", "xmptk">>, <<"Adobe XMP Core 5.1.2">>),
      Call("StartWritingElement", <<"rdf", ":", "RDF">>, <<>>),
      Call("WriteXmlns", <<"rdf">>, <<"http://www.w3.org/1999/02/22-rdf-syntax-ns#">>),
      Call("StartWritingElement", <<"rdf", ":", "Description">>, <<>>),
      Call("WriteXmlns", <<kContainerPrefix>>, <<"http://ns.google.com/photos/1.0/container/">>),
      Call("WriteXmlns", <<kRecoveryMapPrefix>>, <<"http://ns.google.com/photos/1.0/recoverymap/">>),
      Call("WriteElementAndContent", kConVersion, FormatInt(kGContainerVersion)),
      Call("StartWritingElements", kConDirectory, <<"rdf", ":", "Seq">>),
      Call("StartWritingElements", <<"rdf", ":", "li">>, kConItem),
      Call("WriteAttributeNameAndValue", kConItemSemantic, <<"Primary">>),
      Call("WriteAttributeNameAndValue", kConItemMime, <<"image/jpeg">>),
      Call("WriteAttributeNameAndValue", kMapVersion, FormatInt(md.version)),
      Call("WriteAttributeNameAndValue", kMapRangeScalingFactor,
           FormatFloat(md.rangeScalingFactor)),
      Call("WriteAttributeNameAndValue", kMapTransferFunction,
           FormatInt(md.transferFunction))>>
    \o (IF md.transferFunction = JPEGR_TF_PQ
        THEN <<Call("StartWritingElement", kMapHdr10Metadata, <<>>),
               Call("WriteAttributeNameAndValue", kMapHdr10MaxFall,
                    FormatInt(md.hdr10Metadata.maxFALL)),
               Call("WriteAttributeNameAndValue", kMapHdr10MaxCll,
                    FormatInt(md.hdr10Metadata.maxCLL)),
               Call("StartWritingElement", kMapSt2086Metadata, <<>>),
               Call("WriteAttributeNameAndValue", kMapSt2086MaxLum,
                    FormatFloat(md.hdr10Metadata.st2086Metadata.maxLuminance)),
               Call("WriteAttributeNameAndValue", kMapSt2086MinLum,
                    FormatFloat(md.hdr10Metadata.st2086Metadata.minLuminance))>>
             \o CoordinateCalls(0, md.hdr10Metadata.st2086Metadata.redPrimary)
             \o CoordinateCalls(1, md.hdr10Metadata.st2086Metadata.greenPrimary)
             \o CoordinateCalls(2, md.hdr10Metadata.st2086Metadata.bluePrimary)
             \o CoordinateCalls(3, md.hdr10Metadata.st2086Metadata.whitePoint)
        ELSE <<>>)
    \o <<Call("FinishWritingElementsToDepth", <<>>, <<>>),
         Call("StartWritingElements", <<"rdf", ":", "li">>, kConItem),
         Call("WriteAttributeNameAndValue", kConItemSemantic, <<"RecoveryMap">>),
         Call("WriteAttributeNameAndValue", kConItemMime, <<"image/jpeg">>),
         Call("WriteAttributeNameAndValue", kConItemLength, FormatInt(length)),
         Call("FinishWriting", <<>>, <<>>)>>


(***************************************************************************)
(* XMPXmlHandler (lines 65-169); h is the handler object                   *)
(***************************************************************************)
NewHandler == [gContainerItemState |-> "NotStrarted", lastAttributeName |-> <<>>,
               rangeScalingFactorStr |-> <<>>, transferFunctionStr |-> <<>>]

\* (mutant) another element resets the state also when it is Done
StartElementResetsDone(h, val) ==
    IF val = gContainerItemName
    THEN [h EXCEPT !.gContainerItemState = "Started"]
    ELSE [h EXCEPT !.gContainerItemState = "NotStrarted"]

StartElement(h, val) ==
    IF val = gContainerItemName
    THEN [h EXCEPT !.gContainerItemState = "Started"]
    ELSE IF h.gContainerItemState # "Done"
         THEN [h EXCEPT !.gContainerItemState = "NotStrarted"]
         ELSE h

\* (mutant) the end of any element takes the state to Done
FinishElementAnyState(h) ==
    [h EXCEPT !.gContainerItemState = "Done", !.lastAttributeName = <<>>]

FinishElement(h) ==
    IF h.gContainerItemState = "Started"
    THEN [h EXCEPT !.gContainerItemState = "Done", !.lastAttributeName = <<>>]
    ELSE h

AttributeName(h, val) ==
    IF h.gContainerItemState = "Started"
    THEN IF val = rangeScalingFactorAttrName
         THEN [h EXCEPT !.lastAttributeName = rangeScalingFactorAttrName]
         ELSE IF val = transferFunctionAttrName
         THEN [h EXCEPT !.lastAttributeName = transferFunctionAttrName]
         ELSE [h EXCEPT !.lastAttributeName = <<>>]
    ELSE h

\* (mutant) the two attribute values land in each other's field
AttributeValueSwapped(h, val) ==
    IF h.gContainerItemState = "Started"
    THEN IF h.lastAttributeName = rangeScalingFactorAttrName
         THEN [h EXCEPT !.transferFunctionStr = val]
         ELSE IF h.lastAttributeName = transferFunctionAttrName
         THEN [h EXCEPT !.rangeScalingFactorStr = val]
         ELSE h
    ELSE h

AttributeValue(h, val) ==
    IF h.gContainerItemState = "Started"
    THEN IF h.lastAttributeName = rangeScalingFactorAttrName
         THEN [h EXCEPT !.rangeScalingFactorStr = val]
         ELSE IF h.lastAttributeName = transferFunctionAttrName
         THEN [h EXCEPT !.transferFunctionStr = val]
         ELSE h
    ELSE h

getRangeScalingFactor(h) ==
    IF h.gContainerItemState = "Done"
    THEN ParseFloat(h.rangeScalingFactorStr)
    ELSE [ok |-> FALSE, val |-> 0]

getTransferFunction(h) ==
    IF h.gContainerItemState = "Done"
    THEN ParseInt(h.transferFunctionStr)
    ELSE [ok |-> FALSE, val |-> 0]

(***************************************************************************)
(* getMetadataFromXMP (lines 224-267)                                      *)
(***************************************************************************)
\* "http://ns.adobe.com/xap/1.0/": the std::string built from the literal ends
\* at its first NUL
nameSpace == <<104, 116, 116, 112, 58, 47, 47, 110, 115, 46, 97, 100, 111, 98, 101,
               46, 99, 111, 109, 47, 120, 97, 112, 47, 49, 46, 48, 47>>

\* the 29 bytes a packet starts with: the namespace and its NUL
PacketPrefix == [i \in 1..(Len(nameSpace) + 1) |->
                    IF i <= Len(nameSpace) THEN ByteLx(nameSpace[i]) ELSE ByteLx(0)]

IsByte(lx, b) == IF lx.k = "byte" THEN lx.v[1] = b ELSE FALSE

\* the last byte of the lexeme is '>'
EndsWithGt(lx) == IF lx.k = "byte" THEN lx.v[1] = 62 ELSE lx.k \in {"gt", "slashgt"}

\* strncmp(xmp_data, nameSpace.c_str(), nameSpace.size()) != 0
NameSpaceDiffers(data) == \E i \in 1..Len(nameSpace) : ~IsByte(data[i], nameSpace[i])

\* (mutant) the tail is left on the data
TrimTailKeepsAll(data, xmp_size) == xmp_size + 0 * Len(data)

\* the loop of lines 243-245 on the data after the prefix; yields xmp_size
RECURSIVE TrimTail(_, _)
TrimTail(data, xmp_size) ==
    IF ~EndsWithGt(data[xmp_size]) /\ xmp_size > 1
    THEN TrimTail(data, xmp_size - 1)
    ELSE xmp_size

\* the indices xmp_size-1 at which the loop of lines 243-245 reads xmp_data,
\* counted from the start of the XML portion
RECURSIVE TrimReads(_, _)
TrimReads(data, xmp_size) ==
    IF xmp_size < 1 THEN {xmp_size - 1}
    ELSE {xmp_size - 1} \cup
         (IF ~EndsWithGt(data[xmp_size]) /\ xmp_size > 1
          THEN TrimReads(data, xmp_size - 1)
          ELSE {})

\* inputs of the model
RangeScalingFactors == {35000000, 10000000, 12345678, 1002500000, 5000, 99999995}
TransferFunctions == 0..4
SecondaryLengths == {0, 1234}
Variants == {"whole", "truncated", "garbled", "tailed", "noGt", "short", "otherNamespace",
             "foo", "noRangeScalingFactor", "noTransferFunction", "otherElement",
             "twoItems", "itemWithChild"}

\* the variants whose document is the one generateXmp writes
GeneratedVariants == {"whole", "truncated", "garbled", "tailed", "otherNamespace"}

\* the longest tail appended after a document
MaxTail == 2

SampleHdr10 ==
    [maxFALL |-> 400, maxCLL |-> 1000,
     st2086Metadata |->
        [maxLuminance |-> 100 * FloatScale, minLuminance |-> 5000,
         redPrimary   |-> [x |-> 7080000, y |-> 2920000],
         greenPrimary |-> [x |-> 1700000, y |-> 7970000],
         bluePrimary  |-> [x |-> 1310000, y |-> 460000],
         whitePoint   |-> [x |-> 3127000, y |-> 3290000]]]

VariantOf(v, doc) ==
    IF v = "whole" THEN doc
    ELSE IF v = "truncated" THEN SubSeq(doc, 1, Len(doc) - 3)
    ELSE Tail(doc)

\* n bytes of padding
Padding(n) == [i \in 1..n |-> ByteLx(0)]

\* the prefix with the byte at position n replaced
PrefixChangedAt(n) == [PacketPrefix EXCEPT ![n] = ByteLx(88)]

\* what the caller may choose when it builds the packet: the length of the
\* tail, or the position of the prefix byte that differs
PacketChoices(v) ==
    IF v \in {"tailed", "noGt"} THEN 1..MaxTail
    ELSE IF v = "otherNamespace" THEN 1..Len(PacketPrefix)
    ELSE {0}

\* the APP1 payload handed to getMetadataFromXMP
PacketOf(v, n, doc) ==
    IF v = "tailed" THEN PacketPrefix \o doc \o Padding(n)
    ELSE IF v = "noGt" THEN PacketPrefix \o Padding(n)
    ELSE IF v = "short" THEN PacketPrefix
    ELSE IF v = "otherNamespace" THEN PrefixChangedAt(n) \o doc
    ELSE IF v \in {"truncated", "garbled"} THEN PacketPrefix \o VariantOf(v, doc)
    ELSE PacketPrefix \o doc

\* documents of other producers, as calls on the same writer
OtherProducerCalls(v, md) ==
    IF v = "foo"
    THEN <<Call("StartWritingElement", <<"foo">>, <<>>),
           Call("FinishWriting", <<>>, <<>>)>>
    ELSE IF v = "noRangeScalingFactor"
    THEN <<Call("StartWritingElement", kConItem, <<>>),
           Call("WriteAttributeNameAndValue", kMapTransferFunction,
                FormatInt(md.transferFunction)),
           Call("FinishWriting", <<>>, <<>>)>>
    ELSE IF v = "noTransferFunction"
    THEN <<Call("StartWritingElement", kConItem, <<>>),
           Call("WriteAttributeNameAndValue", kMapRangeScalingFactor,
                FormatFloat(md.rangeScalingFactor)),
           Call("FinishWriting", <<>>, <<>>)>>
    ELSE IF v = "otherElement"
    THEN <<Call("StartWritingElement", <<"foo">>, <<>>),
           Call("WriteAttributeNameAndValue", kMapRangeScalingFactor,
                FormatFloat(md.rangeScalingFactor)),
           Call("WriteAttributeNameAndValue", kMapTransferFunction,
                FormatInt(md.transferFunction)),
           Call("StartWritingElement", kConItem, <<>>),
           Call("FinishWriting", <<>>, <<>>)>>
    ELSE IF v = "twoItems"
    THEN <<Call("StartWritingElement", <<"rdf", ":", "Seq">>, <<>>),
           Call("StartWritingElement", kConItem, <<>>),
           Call("WriteAttributeNameAndValue", kMapRangeScalingFactor,
                FormatFloat(md.rangeScalingFactor)),
           Call("FinishWritingElement", <<>>, <<>>),
           Call("StartWritingElement", kConItem, <<>>),
           Call("WriteAttributeNameAndValue", kMapTransferFunction,
                FormatInt(md.transferFunction)),
           Call("FinishWriting", <<>>, <<>>)>>
    ELSE IF v = "itemWithChild"
    THEN <<Call("StartWritingElement", kConItem, <<>>),
           Call("WriteAttributeNameAndValue", kMapRangeScalingFactor,
                FormatFloat(md.rangeScalingFactor)),
           Call("WriteAttributeNameAndValue", kMapTransferFunction,
                FormatInt(md.transferFunction)),
           Call("StartWritingElement", <<"foo">>, <<>>),
           Call("FinishWriting", <<>>, <<>>)>>
    ELSE <<>>

\* the calls that produce the document of the packet
ProducerCalls(v, length, md) ==
    IF v \in GeneratedVariants THEN generateXmpCalls(length, md)
    ELSE OtherProducerCalls(v, md)

SampleMetadata == [version |-> 1, rangeScalingFactor |-> 35000000,
                   transferFunction |-> 1, hdr10Metadata |-> SampleHdr10]

Unset == 0 - 1

InitXmpVars ==
    /\ variant \in Variants
    /\ metadata \in IF variant \in {"whole", "truncated", "garbled", "tailed"}
                    THEN [version : {1}, rangeScalingFactor : RangeScalingFactors,
                          transferFunction : TransferFunctions,
                          hdr10Metadata : {SampleHdr10}]
                    ELSE {SampleMetadata}
    /\ secondary_image_length \in IF variant \in {"whole", "truncated", "garbled", "tailed"}
                                  THEN SecondaryLengths ELSE {0}
    /\ writer = NewWriter
    /\ wpos = 1
    /\ xmp_data = <<>>
    /\ xpc = "start"
    /\ input = <<>>
    /\ rmode = "content"
    /\ open = <<>>
    /\ rerror = FALSE
    /\ handler = NewHandler
    /\ result = [ok |-> FALSE, rangeScalingFactor |-> Unset, transferFunction |-> Unset]

\* a RuntimeSensor nobody calls
IdleSensorVars ==
    /\ mEnabled = FALSE
    /\ mSamplingPeriodNs = 0
    /\ mBatchReportLatencyNs = 0
    /\ callbacks = <<>>
    /\ returned = [call |-> "none", status |-> "none"]

IdleXmpVars ==
    /\ metadata = [version |-> 1, rangeScalingFactor |-> FloatScale,
                   transferFunction |-> 0, hdr10Metadata |-> SampleHdr10]
    /\ secondary_image_length = 0
    /\ writer = NewWriter
    /\ wpos = 1
    /\ variant = "whole"
    /\ xmp_data = <<>>
    /\ xpc = "idle"
    /\ input = <<>>
    /\ rmode = "content"
    /\ open = <<>>
    /\ rerror = FALSE
    /\ handler = NewHandler
    /\ result = [ok |-> FALSE, rangeScalingFactor |-> Unset, transferFunction |-> Unset]

\* generateXmp: the next call on the writer (lines 275-342)
GenerateXmpCall ==
    /\ xpc = "start"
    /\ wpos <= Len(ProducerCalls(variant, secondary_image_length, metadata))
    /\ writer' = Apply(writer, ProducerCalls(variant, secondary_image_length, metadata)[wpos])
    /\ wpos' = wpos + 1
    /\ UNCHANGED <<sensorVars, exifVars, metadata, secondary_image_length, variant, xmp_data, xpc,
                   input, rmode, open, rerror, handler, result>>

\* generateXmp returns ss.str() (line 344); the caller builds the APP1
\* payload: namespace, NUL, document
BuildPacket ==
    /\ xpc = "start"
    /\ wpos > Len(ProducerCalls(variant, secondary_image_length, metadata))
    /\ \E n \in PacketChoices(variant) : xmp_data' = PacketOf(variant, n, writer.out)
    /\ xpc' = "packet"
    /\ UNCHANGED <<sensorVars, exifVars, metadata, secondary_image_length, writer, wpos, variant,
                   input, rmode, open, rerror, handler, result>>

\* lines 224-251: checks, trim, and the start of the parse
GetMetadataBegin ==
    /\ xpc = "packet"
    /\ IF Len(xmp_data) < Len(nameSpace) + 2
       THEN /\ xpc' = "done"
            /\ input' = input
       ELSE IF NameSpaceDiffers(xmp_data)
       THEN /\ xpc' = "done"
            /\ input' = input
       ELSE LET data == Drop(xmp_data, Len(nameSpace) + 1)
            IN /\ input' = SubSeq(data, 1, TrimTail(data, Len(data)))
               /\ xpc' = "parse"
    /\ UNCHANGED <<sensorVars, exifVars, metadata, secondary_image_length, writer, wpos, variant, xmp_data, rmode,
                   open, rerror, handler, result>>

(***************************************************************************)
(* XmlReader with an XmlElementRule: one action per token it recognises    *)
(***************************************************************************)
AtStartTag == rmode = "content" /\ Len(input) >= 2 /\ input[1].k = "lt" /\ input[2].k = "name"

AtAttribute == rmode = "tag" /\ Len(input) >= 2 /\ input[1].k = "name" /\ input[2].k = "eq"

AtValue == rmode = "value" /\ Len(input) >= 1 /\ input[1].k = "value"

AtTagEnd == rmode = "tag" /\ Len(input) >= 1 /\ input[1].k = "gt"

AtText == rmode = "content" /\ open # <<>> /\ Len(input) >= 1 /\ input[1].k = "text"

AtEmptyEnd == rmode = "tag" /\ Len(input) >= 1 /\ input[1].k = "slashgt"

AtEndTag ==
    /\ rmode = "content"
    /\ open # <<>>
    /\ Len(input) >= 3
    /\ input[1].k = "ltslash"
    /\ input[2].k = "name"
    /\ input[3].k = "gt"
    /\ input[2].v = open[Len(open)]

Parsing == xpc = "parse" /\ ~rerror

OnStartElement ==
    /\ Parsing
    /\ AtStartTag
    /\ handler' = StartElement(handler, input[2].v)
    /\ open' = Append(open, input[2].v)
    /\ rmode' = "tag"
    /\ input' = Drop(input, 2)
    /\ UNCHANGED <<sensorVars, exifVars, metadata, secondary_image_length, writer, wpos, variant, xmp_data, xpc,
                   rerror, result>>

OnAttributeName ==
    /\ Parsing
    /\ AtAttribute
    /\ handler' = AttributeName(handler, input[1].v)
    /\ rmode' = "value"
    /\ input' = Drop(input, 2)
    /\ UNCHANGED <<sensorVars, exifVars, metadata, secondary_image_length, writer, wpos, variant, xmp_data, xpc,
                   open, rerror, result>>

OnAttributeValue ==
    /\ Parsing
    /\ AtValue
    /\ handler' = AttributeValue(handler, input[1].v)
    /\ rmode' = "tag"
    /\ input' = Drop(input, 1)
    /\ UNCHANGED <<sensorVars, exifVars, metadata, secondary_image_length, writer, wpos, variant, xmp_data, xpc,
                   open, rerror, result>>

\* ">" of a start tag and element content: no callback the handler overrides
OnOtherToken ==
    /\ Parsing
    /\ IF AtTagEnd THEN TRUE ELSE AtText
    /\ rmode' = "content"
    /\ input' = Drop(input, 1)
    /\ UNCHANGED <<sensorVars, exifVars, metadata, secondary_image_length, writer, wpos, variant, xmp_data, xpc,
                   open, rerror, handler, result>>

OnFinishElement ==
    /\ Parsing
    /\ IF AtEmptyEnd THEN TRUE ELSE AtEndTag
    /\ handler' = FinishElement(handler)
    /\ open' = SubSeq(open, 1, Len(open) - 1)
    /\ rmode' = "content"
    /\ input' = Drop(input, IF AtEmptyEnd THEN 1 ELSE 3)
    /\ UNCHANGED <<sensorVars, exifVars, metadata, secondary_image_length, writer, wpos, variant, xmp_data, xpc,
                   rerror, result>>

NoRuleApplies ==
    ~(AtStartTag \/ AtAttribute \/ AtValue \/ AtTagEnd \/ AtText \/ AtEmptyEnd \/ AtEndTag)

\* the reader meets a token no rule accepts
OnSyntaxError ==
    /\ Parsing
    /\ input # <<>>
    /\ NoRuleApplies
    /\ rerror' = TRUE
    /\ UNCHANGED <<sensorVars, exifVars, metadata, secondary_image_length, writer, wpos, variant, xmp_data, xpc,
                   input, rmode, open, handler, result>>

\* lines 253-266: FinishParse, HasErrors, and the two getters
GetMetadataReturn ==
    /\ xpc = "parse"
    /\ IF rerror THEN TRUE ELSE input = <<>>
    /\ LET hasErrors == IF rerror THEN TRUE
                        ELSE IF open # <<>> THEN TRUE ELSE rmode # "content"
           rsf == getRangeScalingFactor(handler)
           tf  == getTransferFunction(handler)
       IN IF hasErrors
          THEN /\ result' = [result EXCEPT !.ok = FALSE]
               /\ rerror' = TRUE
          ELSE IF ~rsf.ok
          THEN /\ result' = [result EXCEPT !.ok = FALSE]
               /\ rerror' = rerror
          ELSE IF ~tf.ok
          THEN /\ result' = [result EXCEPT !.ok = FALSE, !.rangeScalingFactor = rsf.val]
               /\ rerror' = rerror
          ELSE /\ result' = [ok |-> TRUE, rangeScalingFactor |-> rsf.val,
                             transferFunction |-> tf.val]
               /\ rerror' = rerror
    /\ xpc' = "done"
    /\ UNCHANGED <<sensorVars, exifVars, metadata, secondary_image_length, writer, wpos, variant, xmp_data,
                   input, rmode, open, handler>>

NextXmp ==
    \/ GenerateXmpCall
    \/ BuildPacket
    \/ GetMetadataBegin
    \/ OnStartElement
    \/ OnAttributeName
    \/ OnAttributeValue
    \/ OnOtherToken
    \/ OnFinishElement
    \/ OnSyntaxError
    \/ GetMetadataReturn

IdleExifVars ==
    /\ exif = NullExif
    /\ dest = <<>>
    /\ pos = 0
    /\ pc = "idle"
    /\ status = "none"
    /\ use_big_endian = FALSE
    /\ stack = <<>>
    /\ writeOob = FALSE
    /\ walkOob = FALSE
    /\ badFormat = FALSE
    /\ rewritten = {}

InitXmp == InitXmpVars /\ IdleExifVars /\ IdleSensorVars

SpecXmp == InitXmp /\ [][NextXmp]_vars

(***************************************************************************)
(* XMPXmlHandler alone: any sequence of the four callbacks (lines 78-128). *)
(* input holds the callbacks still to be delivered.                        *)
(***************************************************************************)
\* the longest sequence of callbacks
MaxEvents == 4

StartElementEvent(val) == [k |-> "StartElement", v |-> val]
FinishElementEvent == [k |-> "FinishElement", v |-> <<>>]
AttributeNameEvent(val) == [k |-> "AttributeName", v |-> val]
AttributeValueEvent(val) == [k |-> "AttributeValue", v |-> val]

Events ==
    {StartElementEvent(n) : n \in {gContainerItemName, <<"foo">>}}
    \cup {FinishElementEvent}
    \cup {AttributeNameEvent(n) :
             n \in {rangeScalingFactorAttrName, transferFunctionAttrName, <<"foo">>}}
    \cup {AttributeValueEvent(x) : x \in {<<"1">>, <<"x">>}}

InitHandler ==
    /\ IdleExifVars
    /\ IdleSensorVars
    /\ metadata = SampleMetadata
    /\ secondary_image_length = 0
    /\ writer = NewWriter
    /\ wpos = 1
    /\ variant = "whole"
    /\ xmp_data = <<>>
    /\ xpc = "events"
    /\ input \in SeqsUpTo(Events, MaxEvents)
    /\ rmode = "content"
    /\ open = <<>>
    /\ rerror = FALSE
    /\ handler = NewHandler
    /\ result = [ok |-> FALSE, rangeScalingFactor |-> Unset, transferFunction |-> Unset]

\* the next callback is of kind k
NextEventIs(k) == xpc = "events" /\ input # <<>> /\ Head(input).k = k

DeliverStartElement ==
    /\ NextEventIs("StartElement")
    /\ handler' = StartElement(handler, Head(input).v)
    /\ input' = Tail(input)
    /\ UNCHANGED <<sensorVars, exifVars, metadata, secondary_image_length, writer, wpos, variant, xmp_data,
                   xpc, rmode, open, rerror, result>>

DeliverFinishElement ==
    /\ NextEventIs("FinishElement")
    /\ handler' = FinishElement(handler)
    /\ input' = Tail(input)
    /\ UNCHANGED <<sensorVars, exifVars, metadata, secondary_image_length, writer, wpos, variant, xmp_data,
                   xpc, rmode, open, rerror, result>>

DeliverAttributeName ==
    /\ NextEventIs("AttributeName")
    /\ handler' = AttributeName(handler, Head(input).v)
    /\ input' = Tail(input)
    /\ UNCHANGED <<sensorVars, exifVars, metadata, secondary_image_length, writer, wpos, variant, xmp_data,
                   xpc, rmode, open, rerror, result>>

DeliverAttributeValue ==
    /\ NextEventIs("AttributeValue")
    /\ handler' = AttributeValue(handler, Head(input).v)
    /\ input' = Tail(input)
    /\ UNCHANGED <<sensorVars, exifVars, metadata, secondary_image_length, writer, wpos, variant, xmp_data,
                   xpc, rmode, open, rerror, result>>

NextHandler ==
    \/ DeliverStartElement
    \/ DeliverFinishElement
    \/ DeliverAttributeName
    \/ DeliverAttributeValue

SpecHandler == InitHandler /\ [][NextHandler]_vars

(***************************************************************************)
(* Properties of generateXmp / getMetadataFromXMP                          *)
(***************************************************************************)
RoundTripDone == xpc = "done" /\ variant = "whole"

\* C10 (as stated): for every metadata m with transferFunction in 0..4 (PQ
\* included) and every secondaryLength, getMetadataFromXMP applied to the
\* namespace prefix followed by generateXmp(L, m) succeeds and returns m's
\* rangeScalingFactor and transferFunction.
C10_RoundTripExact ==
    RoundTripDone =>
        /\ result.ok
        /\ result.transferFunction = metadata.transferFunction
        /\ result.rangeScalingFactor = metadata.rangeScalingFactor

\* the weight of the last digit the stream keeps of x
LastKeptDigit(x) ==
    IF NumDigits(x) > StreamPrecision THEN Pow10(NumDigits(x) - StreamPrecision) ELSE 1

\* C10 (amended): the call succeeds and returns m's transferFunction; it
\* returns m's rangeScalingFactor when that has at most 6 significant
\* decimal digits, and otherwise a value within half a unit of the 6th
\* significant digit of it.
C10_RoundTripSixDigits ==
    RoundTripDone =>
        /\ result.ok
        /\ result.transferFunction = metadata.transferFunction
        /\ IF metadata.rangeScalingFactor % LastKeptDigit(metadata.rangeScalingFactor) = 0
           THEN result.rangeScalingFactor = metadata.rangeScalingFactor
           ELSE /\ 2 * (result.rangeScalingFactor - metadata.rangeScalingFactor)
                     <= LastKeptDigit(metadata.rangeScalingFactor)
                /\ 2 * (metadata.rangeScalingFactor - result.rangeScalingFactor)
                     <= LastKeptDigit(metadata.rangeScalingFactor)

C10_Witness ==
    /\ RoundTripDone
    /\ metadata.transferFunction = JPEGR_TF_PQ
    /\ metadata.rangeScalingFactor = 12345678
    /\ result.ok
    /\ result.rangeScalingFactor = 12345700
    /\ result.transferFunction = JPEGR_TF_PQ

\* the call got past the size check and the namespace check
PassedPrefix ==
    /\ xpc \in {"parse", "done"}
    /\ Len(xmp_data) >= Len(nameSpace) + 2
    /\ ~NameSpaceDiffers(xmp_data)

\* the XML portion of the packet
XmlPortion == Drop(xmp_data, Len(nameSpace) + 1)

\* what getMetadataFromXMP returns for the untailed packet of metadata md
UntailedResult(md) ==
    [ok |-> TRUE, rangeScalingFactor |-> ParseFloat(FormatFloat(md.rangeScalingFactor)).val,
     transferFunction |-> md.transferFunction]

\* C11: a packet made of the prefix, a generated document and a tail of NUL
\* bytes yields the same result as the packet without the tail; the trim
\* loop reads only inside the XML portion; and a packet whose XML portion
\* holds no '>' makes the call return failure (it does not loop).
C11_TailTrim ==
    /\ (xpc = "done" /\ variant \in {"whole", "tailed"}) => result = UntailedResult(metadata)
    /\ PassedPrefix =>
          \A i \in TrimReads(XmlPortion, Len(XmlPortion)) : i >= 0 /\ i < Len(XmlPortion)
    /\ (PassedPrefix /\ xpc = "done"
            /\ \A i \in 1..Len(XmlPortion) : ~EndsWithGt(XmlPortion[i]))
          => ~result.ok

C11_Witness ==
    /\ xpc = "done"
    /\ variant = "tailed"
    /\ Len(xmp_data) = Len(PacketPrefix) + Len(writer.out) + 2
    /\ IsByte(xmp_data[Len(xmp_data)], 0)
    /\ metadata.transferFunction = JPEGR_TF_PQ
    /\ result.ok
    /\ result.transferFunction = JPEGR_TF_PQ

C11_WitnessNoGt ==
    /\ xpc = "done"
    /\ variant = "noGt"
    /\ Len(xmp_data) = Len(PacketPrefix) + 2
    /\ ~result.ok

\* the call returned failure without handing anything to the XML parser
RejectedBeforeParse ==
    /\ xpc = "done"
    /\ ~result.ok
    /\ input = <<>>
    /\ handler = NewHandler
    /\ ~rerror

\* the first k bytes of the packet are not the first k bytes of the prefix
PrefixDiffersWithin(k) ==
    IF Len(xmp_data) < k THEN TRUE
    ELSE SubSeq(xmp_data, 1, k) # SubSeq(PacketPrefix, 1, k)

\* C12: for every packet whose first 29 bytes differ in any position from the
\* namespace URI followed by NUL (the 29th byte included) the call fails and
\* never proceeds to XML parsing.
C12_NamespaceChecked ==
    (xpc \in {"parse", "done"} /\ PrefixDiffersWithin(Len(nameSpace) + 1))
        => RejectedBeforeParse

\* the same for the 28 bytes of the URI alone
C12_UriChecked ==
    (xpc \in {"parse", "done"} /\ PrefixDiffersWithin(Len(nameSpace)))
        => RejectedBeforeParse

\* a packet whose 29th byte is not NUL is parsed and accepted
C12_AcceptedWithout29thByte ==
    /\ xpc = "done"
    /\ ~PrefixDiffersWithin(Len(nameSpace))
    /\ PrefixDiffersWithin(Len(nameSpace) + 1)
    /\ result.ok

\* the element the reader is inside of is a GContainer:Item
InsideItem == IF open = <<>> THEN FALSE ELSE open[Len(open)] = gContainerItemName

\* this step stores an attribute value in the handler
Captures ==
    \/ handler'.rangeScalingFactorStr # handler.rangeScalingFactorStr
    \/ handler'.transferFunctionStr # handler.transferFunctionStr

\* this step takes the handler to Done
BecomesDone == handler'.gContainerItemState = "Done" /\ handler.gContainerItemState # "Done"

\* this step is the end of a GContainer:Item element
FinishesItem == InsideItem /\ open' = SubSeq(open, 1, Len(open) - 1)

\* documents without a GContainer:Item, or with one of the two attributes
\* missing from every GContainer:Item
LacksRequiredField ==
    variant \in {"foo", "noRangeScalingFactor", "noTransferFunction", "otherElement"}

SuccessImpliesCaptured ==
    (xpc = "done" /\ result.ok) =>
        /\ handler.gContainerItemState = "Done"
        /\ handler.rangeScalingFactorStr # <<>>
        /\ handler.transferFunctionStr # <<>>

\* C13: the call returns success only if a GContainer:Item was started and
\* finished (final handler state Done) and a value was captured for both
\* RecoveryMap:RangeScalingFactor and RecoveryMap:TransferFunction while
\* inside a GContainer:Item; a document missing one of the two attributes or
\* with no GContainer:Item fails; attributes of the same names on another
\* element are never captured.
C13_SuccessNeedsItemAndBoth ==
    /\ [](SuccessImpliesCaptured)
    /\ []((xpc = "done" /\ LacksRequiredField) => ~result.ok)
    /\ [][Captures => InsideItem /\ handler.gContainerItemState = "Started"]_vars
    /\ [][BecomesDone => FinishesItem]_vars

C13_Witness ==
    /\ xpc = "done"
    /\ ~rerror
    /\ variant = "otherElement"
    /\ handler.gContainerItemState = "Done"
    /\ handler.rangeScalingFactorStr = <<>>
    /\ handler.transferFunctionStr = <<>>
    /\ ~result.ok

C13_WitnessTwoItems ==
    /\ xpc = "done"
    /\ variant = "twoItems"
    /\ result.ok

\* this step delivers the callback ev to the handler
Delivers(ev) == xpc = "events" /\ input # <<>> /\ Head(input) = ev /\ input' = Tail(input)

DeliversAny == xpc = "events" /\ input # <<>> /\ input' = Tail(input)

ItemStarts == StartElementEvent(gContainerItemName)

StateBefore == handler.gContainerItemState
StateAfter == handler'.gContainerItemState

\* C14: for every sequence of StartElement / FinishElement / AttributeName /
\* AttributeValue callbacks, the state becomes Started exactly on
\* StartElement("GContainer:Item"), becomes Done only by a FinishElement
\* received in state Started, and once Done it never becomes NotStarted again
\* (only a further StartElement("GContainer:Item") leaves Done).
C14_HandlerStates ==
    [][DeliversAny =>
         /\ Delivers(ItemStarts) => StateAfter = "Started"
         /\ (StateAfter = "Started" /\ StateBefore # "Started") => Delivers(ItemStarts)
         /\ (StateAfter = "Done" /\ StateBefore # "Done")
               => (Delivers(FinishElementEvent) /\ StateBefore = "Started")
         /\ StateBefore = "Done"
               => (StateAfter # "NotStrarted"
                   /\ (StateAfter # "Done" => Delivers(ItemStarts)))]_vars

C14_Witness ==
    /\ xpc = "events"
    /\ handler.gContainerItemState = "Done"
    /\ handler.lastAttributeName = <<>>
    /\ input # <<>>
    /\ Head(input) = StartElementEvent(<<"foo">>)

Next ==
    \/ UpdateExifNull
    \/ UpdateExifBadMark
    \/ UpdateExifCopy
    \/ WalkEntry
    \/ WalkDescend
    \/ WalkReturn
    \/ UpdateExifReturn
    \/ Fault

Init == InitExif /\ IdleXmpVars /\ IdleSensorVars

Spec == Init /\ [][Next]_vars

(***************************************************************************)
(* RuntimeSensor (SensorInterface.cpp lines 90-125)                        *)
(***************************************************************************)
\* arguments the callers pass
SamplingPeriods == {0, 10, 20}
BatchLatencies == {0, 100}

\* what mCallback->onConfigurationChanged may return
CallbackStatuses == {"OK", "DEAD_OBJECT"}

\* the most onConfigurationChanged calls followed
MaxCallbacks == 3

\* the arguments of one onConfigurationChanged call, after the handle
Configuration(enabled, samplingPeriodNs, batchReportLatencyNs) ==
    [enabled |-> enabled, samplingPeriodNs |-> samplingPeriodNs,
     batchReportLatencyNs |-> batchReportLatencyNs]

\* the method "call" returns status
Returns(call, st) == returned' = [call |-> call, status |-> st]

\* return mCallback->onConfigurationChanged(handle, enabled, sampling, latency)
\* as the last statement of the method "call"
onConfigurationChanged(call, enabled, samplingPeriodNs, batchReportLatencyNs) ==
    /\ callbacks' = Append(callbacks,
                           Configuration(enabled, samplingPeriodNs, batchReportLatencyNs))
    /\ \E st \in CallbackStatuses : Returns(call, st)

InitSensor ==
    /\ IdleExifVars
    /\ IdleXmpVars
    /\ mEnabled = FALSE
    /\ mSamplingPeriodNs \in SamplingPeriods
    /\ mBatchReportLatencyNs \in BatchLatencies
    /\ callbacks = <<>>
    /\ returned = [call |-> "none", status |-> "none"]

activate(enabled) ==
    /\ Len(callbacks) < MaxCallbacks
    /\ IF enabled # mEnabled
       THEN /\ mEnabled' = enabled
            /\ onConfigurationChanged("activate", enabled, mSamplingPeriodNs,
                                      mBatchReportLatencyNs)
       ELSE /\ Returns("activate", "OK")
            /\ UNCHANGED <<mEnabled, callbacks>>
    /\ UNCHANGED <<exifVars, xmpVars, mSamplingPeriodNs, mBatchReportLatencyNs>>

batch(samplingPeriodNs, maxBatchReportLatencyNs) ==
    /\ Len(callbacks) < MaxCallbacks
    /\ IF (mSamplingPeriodNs # samplingPeriodNs
             \/ mBatchReportLatencyNs # maxBatchReportLatencyNs)
       THEN /\ mSamplingPeriodNs' = samplingPeriodNs
            /\ mBatchReportLatencyNs' = maxBatchReportLatencyNs
            /\ IF mEnabled
               THEN onConfigurationChanged("batch", mEnabled, samplingPeriodNs,
                                           maxBatchReportLatencyNs)
               ELSE /\ Returns("batch", "OK")
                    /\ UNCHANGED callbacks
       ELSE /\ Returns("batch", "OK")
            /\ UNCHANGED <<mSamplingPeriodNs, mBatchReportLatencyNs, callbacks>>
    /\ UNCHANGED <<exifVars, xmpVars, mEnabled>>

\* (mutant) the callback is made also when the sensor is disabled
setDelayAlwaysNotifies(ns) ==
    /\ Len(callbacks) < MaxCallbacks
    /\ IF mSamplingPeriodNs # ns
       THEN /\ mSamplingPeriodNs' = ns
            /\ onConfigurationChanged("setDelay", mEnabled, ns, mBatchReportLatencyNs)
       ELSE /\ Returns("setDelay", "OK")
            /\ UNCHANGED <<mSamplingPeriodNs, callbacks>>
    /\ UNCHANGED <<exifVars, xmpVars, mEnabled, mBatchReportLatencyNs>>

setDelay(ns) ==
    /\ Len(callbacks) < MaxCallbacks
    /\ IF mSamplingPeriodNs # ns
       THEN /\ mSamplingPeriodNs' = ns
            /\ IF mEnabled
               THEN onConfigurationChanged("setDelay", mEnabled, ns, mBatchReportLatencyNs)
               ELSE /\ Returns("setDelay", "OK")
                    /\ UNCHANGED callbacks
       ELSE /\ Returns("setDelay", "OK")
            /\ UNCHANGED <<mSamplingPeriodNs, callbacks>>
    /\ UNCHANGED <<exifVars, xmpVars, mEnabled, mBatchReportLatencyNs>>

NextSensor ==
    \/ \E enabled \in BOOLEAN : activate(enabled)
    \/ \E s \in SamplingPeriods, b \in BatchLatencies : batch(s, b)
    \/ \E ns \in SamplingPeriods : setDelay(ns)

SpecSensor == InitSensor /\ [][NextSensor]_vars

\* the last onConfigurationChanged call carried the sensor's current values
LastCallbackIsCurrent ==
    IF callbacks = <<>> THEN FALSE
    ELSE callbacks[Len(callbacks)]
           = Configuration(mEnabled, mSamplingPeriodNs, mBatchReportLatencyNs)

\* this step changes none of enabled, sampling period, batch latency
ChangesNothing ==
    /\ mEnabled' = mEnabled
    /\ mSamplingPeriodNs' = mSamplingPeriodNs
    /\ mBatchReportLatencyNs' = mBatchReportLatencyNs

\* this step leaves a disabled sensor disabled
StaysDisabled == ~mEnabled /\ ~mEnabled'

\* C15: after any sequence of activate / batch / setDelay calls, whenever the
\* sensor is enabled the most recent onConfigurationChanged callback carried
\* exactly its current (enabled, samplingPeriodNs, batchReportLatencyNs); a
\* call that changes none of these, or that changes only the periods while
\* the sensor is disabled, issues no callback.
C15_CallbackMatchesConfiguration ==
    /\ [](mEnabled => LastCallbackIsCurrent)
    /\ [][(ChangesNothing \/ StaysDisabled) => callbacks' = callbacks]_vars

C15_Witness ==
    /\ mEnabled
    /\ Len(callbacks) = 3
    /\ callbacks[1].enabled
    /\ ~callbacks[2].enabled
    /\ callbacks[2].samplingPeriodNs # callbacks[3].samplingPeriodNs
    /\ LastCallbackIsCurrent

(***************************************************************************)
(* Properties of updateExif                                                *)
(***************************************************************************)
Src == exif.data

SrcBig == Mark16(Src) = Mark4d4d

Succeeded == pc = "done" /\ status = "NO_ERROR"

Patched == ~exif.isNull /\ Succeeded /\ Len(dest) >= Needed(exif)

\* an entry of the source at absolute position e whose value field is an offset
IsOffsetEntry(e) ==
    \/ readValue(Src, e, 2, SrcBig, 0) = ExifSubIfdTag
    \/ /\ readValue(Src, e + 2, 2, SrcBig, 0) \in 1..12
       /\ findFormatLengthInBytes(readValue(Src, e + 2, 2, SrcBig, 0))
            * readValue(Src, e + 4, 4, SrcBig, 0) > 4

\* an entry of the source whose value is stored inline
IsInlineEntry(e) ==
    /\ readValue(Src, e, 2, SrcBig, 0) # ExifSubIfdTag
    /\ readValue(Src, e + 2, 2, SrcBig, 0) \in 1..12
    /\ findFormatLengthInBytes(readValue(Src, e + 2, 2, SrcBig, 0))
         * readValue(Src, e + 4, 4, SrcBig, 0) <= 4

\* positions, in the source, of the entries of the IFD whose count is at c
IfdEntries(c) ==
    IF RangeInBuf(Src, c, 2)
    THEN {e \in {c + 2 + 12 * k : k \in 0..(readValue(Src, c, 2, SrcBig, 0) - 1)} :
            RangeInBuf(Src, e, 12)}
    ELSE {}

\* positions, in the source, of the entries of IFD0 and of the Exif SubIFD
\* reached from IFD0 through tag 0x8769
Ifd0Entries == IfdEntries(14)

SubIfdEntries ==
    UNION {IfdEntries(readValue(Src, e + 8, 4, SrcBig, 0) + 6) :
              e \in {x \in Ifd0Entries : readValue(Src, x, 2, SrcBig, 0) = ExifSubIfdTag}}

SubIfdPointers == {e \in Ifd0Entries : readValue(Src, e, 2, SrcBig, 0) = ExifSubIfdTag}

\* C1: after a successful updateExif every value field of IFD0 and of the Exif
\* SubIFD that is an offset in the original holds the original value plus 12,
\* also when the SubIFD is reachable through more than one 0x8769 entry.
C1_OffsetsShiftedBy12 ==
    Patched =>
        \A e \in {x \in Ifd0Entries \cup SubIfdEntries : IsOffsetEntry(x)} :
            readValue(dest, e + 12 + 8, 4, SrcBig, 0)
                = readValue(Src, e + 8, 4, SrcBig, 0) + EXIF_J_R_ENTRY_LENGTH

JrEntryInFileOrder == IF SrcBig THEN <<74, 82, 0, 7, 0, 0, 0, 1, 0, 0, 0, 0>>
                      ELSE <<74, 82, 7, 0, 1, 0, 0, 0, 0, 0, 0, 0>>

JrEntryInByteOrder == EntryBytes([tag |-> 19026, fmt |-> 7, cnt |-> 1, val |-> 0], SrcBig)

InRewrittenField(i) == \E p \in rewritten : i >= p /\ i <= p + 3

LayoutAround(jr) ==
    Patched =>
        /\ pos = Len(Src) + EXIF_J_R_ENTRY_LENGTH
        /\ \A i \in 0..13 : dest[i + 1] = Src[i + 1]
        /\ SubSeq(dest, 17, 28) = jr
        /\ \A i \in 28..(Len(Src) + 11) :
              ~InRewrittenField(i) => dest[i + 1] = Src[i - 12 + 1]
        /\ \A e \in {x \in Ifd0Entries \cup SubIfdEntries : IsInlineEntry(x)} :
              SubSeq(dest, e + 12 + 8 + 1, e + 12 + 12) = SubSeq(Src, e + 8 + 1, e + 12)

StoredCount == readValue(dest, 14, 2, SrcBig, 0)

OriginalCount == readValue(Src, 14, 2, SrcBig, 0)

CountWritten ==
    /\ ~exif.isNull
    /\ pc \in {"walk", "done", "overflow"}
    /\ status # "ERROR_JPEGR_METADATA_ERROR"
    /\ Len(dest) >= 16

\* C3 (as stated): the 16-bit IFD0 entry count at output bytes 14-15 is the
\* original count plus one, for every original count in 0..0xFFFF.
C3_CountPlusOne == CountWritten => StoredCount = OriginalCount + 1

\* C3 (amended): the stored count is the original count plus one modulo 2^16:
\* original + 1 for 0..0xFFFE, and 0 for 0xFFFF.
C3_CountPlusOneMod16 == CountWritten => StoredCount = (OriginalCount + 1) % Pow2_16

C3_Witness == CountWritten /\ pc = "done" /\ OriginalCount = 65535 /\ StoredCount = 0

\* the 28 bytes of the pseudo-EXIF package as listed for the external interface
PseudoPackageListing ==
    <<69, 120, 105, 102, 0, 0>> \o <<73, 73, 42, 0>> \o <<8, 0, 0, 0>> \o <<1, 0>>
    \o <<74, 82, 7, 0>> \o <<1, 0, 0, 0>> \o <<0, 0, 0, 0>>

\* C4: with a null source and a destination of capacity >= 28, updateExif
\* returns success and writes exactly the 28-byte little-endian pseudo-EXIF
\* package at offset 0.
C4_NullInputShape ==
    (exif.isNull /\ pc = "done" /\ Len(dest) >= PSEUDO_EXIF_PACKAGE_LENGTH) =>
        /\ status = "NO_ERROR"
        /\ pos = 28
        /\ SubSeq(dest, 1, 28) = PseudoPackageListing
        /\ \A k \in 29..Len(dest) : dest[k] = Unwritten

C4_Witness ==
    exif.isNull /\ pc = "done" /\ Len(dest) = 29 /\ dest[28] = 0 /\ dest[1] = 69

\* C5: an append with cursor + n > capacity fails with BufferTooSmall and
\* leaves buffer and cursor unchanged; updateExif on a destination smaller
\* than the bytes to be written returns BufferTooSmall and writes nothing.
C5_AppendChecked ==
    /\ ~writeOob
    /\ (pc = "done" /\ Needed(exif) > Len(dest)
          /\ (IF exif.isNull THEN TRUE ELSE Mark16(Src) \in {Mark4949, Mark4d4d}))
       => (/\ status = "ERROR_JPEGR_BUFFER_TOO_SMALL"
           /\ pos = 0
           /\ \A k \in 1..Len(dest) : dest[k] = Unwritten)

\* C6: updateExif / updateExifOffsets never read or write a byte outside the
\* output buffer; a walk that would leave it ends in MetadataError.
C6_WalkStaysInside == ~walkOob

\* C7: if a visited entry other than a 0x8769 entry has a format code outside
\* 1..12, updateExif returns MetadataError.
C7_UnknownFormatRejected ==
    (pc = "done" /\ badFormat) => status = "ERROR_JPEGR_METADATA_ERROR"

AllUnwritten == \A k \in 1..Len(dest) : dest[k] = Unwritten

\* C8: bytes 6-7 = 49 49 select little-endian, 4D 4D big-endian; any other
\* value makes updateExif return MetadataError without writing a byte.
C8_ByteOrderDetection ==
    (~exif.isNull /\ pc \in {"walk", "done", "overflow"}) =>
        IF Src[7] = 73 /\ Src[8] = 73
        THEN /\ use_big_endian = FALSE
             /\ status # "ERROR_JPEGR_METADATA_ERROR"
             /\ Len(dest) >= 28 => SubSeq(dest, 19, 24) = <<7, 0, 1, 0, 0, 0>>
        ELSE IF Src[7] = 77 /\ Src[8] = 77
        THEN /\ use_big_endian = TRUE
             /\ status # "ERROR_JPEGR_METADATA_ERROR"
             /\ Len(dest) >= 28 => SubSeq(dest, 19, 24) = <<0, 7, 0, 0, 0, 1>>
        ELSE /\ pc = "done"
             /\ status = "ERROR_JPEGR_METADATA_ERROR"
             /\ pos = 0
             /\ AllUnwritten

C8_Witness ==
    /\ ~exif.isNull
    /\ pc = "done"
    /\ Src[7] = 73 /\ Src[8] = 77
    /\ status = "ERROR_JPEGR_METADATA_ERROR"

\* C9: updateExif terminates on every input: the walk descends into the Exif
\* SubIFD only to a bounded depth, so a SubIFD with a 0x8769 entry pointing
\* back to itself does not make the recursion run away.
C9_DescentBounded == pc # "overflow"

TypeOK ==
    /\ pc \in {"idle", "start", "walk", "done", "crashed", "overflow"}
    /\ xpc \in {"idle", "start", "packet", "parse", "done", "events"}
    /\ rmode \in {"content", "tag", "value"}
    /\ handler.gContainerItemState \in {"NotStrarted", "Started", "Done"}
    /\ status \in {"none", "NO_ERROR", "ERROR_JPEGR_METADATA_ERROR"}
    /\ \A k \in 1..Len(dest) : dest[k] \in 0..255 \cup {Unwritten}
====
